---- MODULE Spec2Model ----
(***************************************************************************)
(* MyCastle Desktop Agent: the operation registry (operations/__init__.py) *)
(* and the MQTT dispatch agent (agent.py).  Two threads are modelled: the  *)
(* main thread (start(), the signal handler, stop()) and the paho network  *)
(* thread that runs the _on_connect and _on_message callbacks.             *)
(***************************************************************************)
EXTENDS Integers, Sequences, FiniteSets, TLC

\* ------------------------------------------------------------------ bounds
MaxMsgs == 2        \* inbound messages delivered in one run
MaxRegs == 3        \* @operation registrations in one run
MaxSignals == 2     \* SIGINT/SIGTERM deliveries in one run
MaxConnacks == 2    \* connect callbacks in one run (first connect + reconnects)

\* ------------------------------------------------------- JSON scalar values
\* A decoded JSON value that can sit in the "id" or "action" field.
JNull == [t |-> "null", s |-> "", n |-> 0]

JStr(s) == [t |-> "str", s |-> s, n |-> 0]

JInt(n) == [t |-> "int", s |-> "", n |-> n]

\* A key that is not in the dict (params.get falls back to its default).
JAbsent == [t |-> "absent", s |-> "", n |-> 0]

\* Python truthiness ("if not action", "if request_id").
Truthy(v) ==
    CASE v.t = "null" -> FALSE
      [] v.t = "str" -> v.s # ""
      [] v.t = "int" -> v.n # 0

\* Variant: every value can be sliced.
SubscriptableAnything(v) == v.t \in {"str", "null", "int"}

\* request_id[:8] works on a str and raises TypeError on None and on an int.
Subscriptable(v) == v.t = "str"

\* str(v) as it appears inside an f-string.
PyStr(v) ==
    CASE v.t = "null" -> "None"
      [] v.t = "str" -> v.s
      [] v.t = "int" -> IF v.n = 7 THEN "7" ELSE "0"

\* ------------------------------------------------------------------ topics
TOPICS == [REQUEST |-> "mycastle/desktop/request",
           RESPONSE |-> "mycastle/desktop/response",
           STATUS |-> "mycastle/desktop/status"]

OtherTopic == "mycastle/desktop/other"

\* ---------------------------------------------------------------- registry
\* Operation names; Rank is their position in Python's string order, which
\* is what sorted() compares.
Names == {"get_clipboard", "run_command", "system_info"}

Rank(name) ==
    CASE name = "get_clipboard" -> 1
      [] name = "run_command" -> 2
      [] name = "stub_async" -> 3
      [] name = "stub_raw" -> 4
      [] name = "system_info" -> 5

\* Handler functions that the decorators of the provider modules register.
Fns == {"get_clipboard_fn", "run_command_fn", "system_info_fn", "stub_fn",
        "stub_async_fn", "stub_raw_fn"}

NoFn == "None"

\* dict.get(name): the stored handler, or None.
RegistryGet(reg, name) == IF name \in DOMAIN reg THEN reg[name] ELSE NoFn

\* Variant: an existing entry is kept (setdefault).
RegistryPutFirstWins(reg, name, fn) ==
    [k \in (DOMAIN reg) \cup {name} |->
        IF k \in DOMAIN reg THEN reg[k] ELSE fn]

\* _operations[name] = fn
RegistryPut(reg, name, fn) ==
    [k \in (DOMAIN reg) \cup {name} |-> IF k = name THEN fn ELSE reg[k]]

\* Variant: the comparison is reversed.
RECURSIVE SortNamesReversed(_)
SortNamesReversed(S) ==
    IF S = {} THEN <<>>
    ELSE LET m == CHOOSE x \in S : \A y \in S : Rank(x) >= Rank(y)
         IN <<m>> \o SortNamesReversed(S \ {m})

\* sorted(keys): repeatedly take the least remaining name.
RECURSIVE SortNames(_)
SortNames(S) ==
    IF S = {} THEN <<>>
    ELSE LET m == CHOOSE x \in S : \A y \in S : Rank(x) <= Rank(y)
         IN <<m>> \o SortNames(S \ {m})

list_operations(reg) == SortNames(DOMAIN reg)

\* The registrations load_all() triggers, in import order
\* (system, clipboard, shell).
LoadSequence == << <<"system_info", "system_info_fn">>,
                   <<"get_clipboard", "get_clipboard_fn">>,
                   <<"run_command", "run_command_fn">> >>

\* A provider module of stub handlers: a coroutine function, and a function
\* whose result json.dumps cannot encode.
StubSequence == << <<"stub_async", "stub_async_fn">>,
                   <<"stub_raw", "stub_raw_fn">> >>

RECURSIVE ApplyRegs(_, _)
ApplyRegs(reg, regs) ==
    IF regs = <<>> THEN reg
    ELSE ApplyRegs(RegistryPut(reg, regs[1][1], regs[1][2]), Tail(regs))

EmptyRegistry == [k \in {} |-> NoFn]

\* ---------------------------------------------------------------- messages
\* The "payload" field of a decoded request: absent, present but not a dict
\* (null, a string, a list), or a dict with an optional action and params.
\* The params a handler gets: the command and the timeout of run_command
\* (command "" when the key is absent; "params or {}" gives NoParams).
NoParams == [command |-> "", timeout |-> JAbsent]

Cmd(timeout) == [command |-> "ls", timeout |-> timeout]

PAbsent == [pt |-> "absent", action |-> JNull, params |-> NoParams]

PNonDict == [pt |-> "nondict", action |-> JNull, params |-> NoParams]

PDict(action, params) == [pt |-> "dict", action |-> action, params |-> params]

\* The bytes of an inbound message, by what msg.payload.decode() and
\* json.loads make of them:
\*   badutf8  decode() raises UnicodeDecodeError
\*   badjson  json.loads raises JSONDecodeError
\*   nonobj   valid JSON that is not an object (a list, a number, null)
\*   obj      a JSON object with an optional id and payload
BadUtf8 == [bt |-> "badutf8", id |-> JNull, payload |-> PAbsent]

BadJson == [bt |-> "badjson", id |-> JNull, payload |-> PAbsent]

NonObj == [bt |-> "nonobj", id |-> JNull, payload |-> PAbsent]

Obj(id, payload) == [bt |-> "obj", id |-> id, payload |-> payload]

Ids == {JNull, JStr(""), JStr("r1"), JStr("r2"), JInt(7)}

Payloads ==
    {PAbsent, PNonDict,
     PDict(JNull, NoParams),
     PDict(JStr("system_info"), NoParams),
     PDict(JStr("run_command"), NoParams),
     PDict(JStr("run_command"), Cmd(JAbsent)),
     PDict(JStr("does_not_exist"), NoParams)}

Bodies ==
    {BadUtf8, BadJson, NonObj} \cup {Obj(i, p) : i \in Ids, p \in Payloads}

Msgs == [topic : {TOPICS.REQUEST}, body : Bodies]
        \cup {[topic |-> OtherTopic,
               body |-> Obj(JStr("r1"), PDict(JStr("system_info"), NoParams))]}

\* Requests that reach a handler: each handler, and run_command with every
\* kind of timeout.
Timeouts == {JAbsent, JNull, JInt(10), JInt(120), JInt(121), JInt(500)}

HandlerPayloads ==
    {PDict(JStr("system_info"), NoParams),
     PDict(JStr("stub_async"), NoParams),
     PDict(JStr("stub_raw"), NoParams),
     PDict(JStr("run_command"), NoParams)}
    \cup {PDict(JStr("run_command"), Cmd(t)) : t \in Timeouts}

HandlerMsgs ==
    {[topic |-> TOPICS.REQUEST, body |-> Obj(i, p)] :
        i \in {JStr("r1"), JStr("")}, p \in HandlerPayloads}

\* The few messages used while the lifecycle is explored.
LifeMsgs ==
    {[topic |-> TOPICS.REQUEST,
      body |-> Obj(JStr("r1"), PDict(JStr("system_info"), NoParams))],
     [topic |-> TOPICS.REQUEST,
      body |-> Obj(JStr("r2"), PDict(JStr("run_command"), NoParams))]}

\* --------------------------------------------------------------- envelopes
NoData == "None"

NoMessage == <<>>

\* The uuid4 "id" and the "timestamp" of a packet are left out: no reader of
\* the packet in this program depends on them.
ResponsePacket(request_id, data) ==
    [type |-> "response", requestId |-> request_id, data |-> data,
     message |-> NoMessage, status |-> "", operations |-> <<>>]

\* Variant: the correlation id is written as its text.
ErrorPacketStringified(request_id, message) ==
    [type |-> "error", requestId |-> JStr(PyStr(request_id)), data |-> NoData,
     message |-> message, status |-> "", operations |-> <<>>]

ErrorPacket(request_id, message) ==
    [type |-> "error", requestId |-> request_id, data |-> NoData,
     message |-> message, status |-> "", operations |-> <<>>]

StatusPacket(status, reg) ==
    [type |-> "status", requestId |-> JNull, data |-> NoData,
     message |-> NoMessage, status |-> status,
     operations |-> list_operations(reg)]

\* One client.publish call.  cause is the arrival number of the message whose
\* callback made the call (0 outside _on_message).
Publish(topic, packet, retain, cause) ==
    [topic |-> topic, packet |-> packet, qos |-> 1, retain |-> retain,
     cause |-> cause]

_publish_response(request_id, data, cause) ==
    Publish(TOPICS.RESPONSE, ResponsePacket(request_id, data), FALSE, cause)

_publish_error(request_id, message, cause) ==
    Publish(TOPICS.RESPONSE, ErrorPacket(request_id, message), FALSE, cause)

_publish_status(status, reg) ==
    Publish(TOPICS.STATUS, StatusPacket(status, reg), TRUE, 0)

\* ---------------------------------------------------------------- handlers
\* Exception texts (str(e)) are token sequences, so that "the message
\* contains the action name" can be asked of them.
MissingAction == <<"Missing 'action' in payload">>

UnknownOperation(action) == <<"Unknown operation: ", PyStr(action)>>

NoGetAttr(what) == <<"'", what, "' object has no attribute 'get'">>

NotSubscriptable(v) ==
    <<"'", IF v.t = "null" THEN "NoneType" ELSE "int",
      "' object is not subscriptable">>

LoopClosedError == <<"Event loop is closed">>

\* ------------------------------------------------------------------ config
VARIABLE
    SHELL_COMMAND_TIMEOUT   \* config.SHELL_COMMAND_TIMEOUT, read from the
                            \* environment when the process starts

cfgVars == <<SHELL_COMMAND_TIMEOUT>>

\* The default of SHELL_COMMAND_TIMEOUT.
DefaultShellTimeout == 30

\* The hard cap of run_command, in seconds.
HardCap == 120

\* The sub-process call a handler made: the timeout given to subprocess.run
\* and the time the command needs.
NoSub == [ran |-> FALSE, timeout |-> 0, duration |-> 0]

Sub(timeout, duration) ==
    [ran |-> TRUE, timeout |-> timeout, duration |-> duration]

\* What a handler can do with the params it gets: return a result map or
\* raise.  ok = TRUE carries data, ok = FALSE carries the exception text.
Returns(data) == [ok |-> TRUE, data |-> data, e |-> NoMessage, sub |-> NoSub]

Raises(e) == [ok |-> FALSE, data |-> NoData, e |-> e, sub |-> NoSub]

\* Seconds a command may need.
Durations == {5, 125, 1000}

NumText(n) ==
    CASE n = 10 -> "10"
      [] n = 30 -> "30"
      [] n = 120 -> "120"
      [] OTHER -> "n"

TimeoutExpired(timeout) ==
    <<"Command 'ls' timed out after ", NumText(timeout), " seconds">>

\* Variant: the requested timeout is used as it is.
EffectiveTimeoutUncapped(timeout) == timeout

\* min(timeout, 120)
EffectiveTimeout(timeout) == IF timeout < HardCap THEN timeout ELSE HardCap

\* subprocess.run(command, timeout=timeout): the result of a command that
\* ends in time, TimeoutExpired for one that does not.
SubprocessRun(timeout) ==
    {IF d > timeout
     THEN [Raises(TimeoutExpired(timeout)) EXCEPT !.sub = Sub(timeout, d)]
     ELSE [Returns("{stdout: o, stderr: , return_code: 0}")
              EXCEPT !.sub = Sub(timeout, d)] : d \in Durations}

\* run_command(params)
run_command(params) ==
    IF params.command = ""
    THEN {Raises(<<"command is required">>)}
    ELSE LET timeout == IF params.timeout.t = "absent"
                        THEN JInt(SHELL_COMMAND_TIMEOUT)
                        ELSE params.timeout
         IN  IF timeout.t # "int"
             THEN {Raises(<<"'<' not supported between instances of 'int' ",
                            "and 'NoneType'">>)}
             ELSE SubprocessRun(EffectiveTimeout(timeout.n))

\* A result that json.dumps cannot encode.
RawBytes == "{raw: b'..'}"

\* What calling fn(params) gives.
HandlerOutcomes(fn, params) ==
    CASE fn = "system_info_fn" -> {Returns("{hostname: h1}")}
      [] fn = "get_clipboard_fn" -> {Returns("{text: t}")}
      [] fn = "run_command_fn" -> run_command(params)
      [] fn = "stub_fn" -> {Returns("{stub: 1}")}
      [] fn = "stub_async_fn" -> {Returns("{async: 1}")}
      [] fn = "stub_raw_fn" -> {Returns(RawBytes)}

\* ------------------------------------------------------------------- state
VARIABLES
    operations,   \* _operations: the registry, name -> handler
    regLog,       \* history: the registrations made so far, in order
    mainPc,       \* main thread: loading, connect, loop_start, serving,
                  \*              finally, exited
    frames,       \* main thread: the stop() calls in progress, innermost first
    running,      \* self.running
    signals,      \* signals delivered so far
    stopReturns,  \* history: stop() calls that have returned
    netPc,        \* network thread: off, idle, executing, dead, exited
    terminate,    \* paho's _thread_terminate, set by loop_stop()
    conn,         \* connection: none, connecting, up, closed
    subscribed,   \* the request topic is subscribed on this connection
    connacks,     \* connect callbacks run so far
    connLog,      \* history: the reason code of each connect callback
    subscribes,   \* history: client.subscribe calls made
    flushed,      \* publish calls (a prefix of published) that the network
                  \* thread has written to the broker
    inbox,        \* messages read off the socket in order, not yet dispatched
    received,     \* history: every message that arrived, by arrival number
    cur,          \* the request whose handler is executing
    ran,          \* history: arrival numbers whose handler was invoked
    waited,       \* history: arrival numbers that arrived behind a running
                  \*          handler
    outcome,      \* history: arrival number -> how its callback ended
    subruns,      \* history: the subprocess.run calls handlers made
    published,    \* history: every client.publish call, in order
    loopClosed    \* self.loop.close() has been called

vars == <<SHELL_COMMAND_TIMEOUT, connLog, subscribes, flushed, subruns,
          operations, regLog, mainPc, frames, running, signals, stopReturns,
          netPc, terminate, conn, subscribed, connacks, inbox, received, cur,
          ran, waited, outcome, published, loopClosed>>

regVars == <<operations, regLog>>

mainVars == <<mainPc, frames, running, signals, stopReturns>>

connVars == <<conn, subscribed, connacks>>

xportVars == <<connLog, subscribes, flushed>>

msgVars == <<inbox, received, cur, ran, waited, outcome, subruns>>

NoCur == [n |-> 0, msg |-> [topic |-> "", body |-> BadJson], fn |-> NoFn]

\* ------------------------------------------------------- DesktopAgent.__init__
Init ==
    /\ operations = EmptyRegistry
    /\ regLog = <<>>
    /\ mainPc = "loading"
    /\ frames = <<>>
    /\ running = FALSE
    /\ signals = 0
    /\ stopReturns = 0
    /\ netPc = "off"
    /\ terminate = FALSE
    /\ conn = "none"
    /\ subscribed = FALSE
    /\ connacks = 0
    /\ connLog = <<>>
    /\ subscribes = 0
    /\ flushed = 0
    /\ subruns = {}
    /\ SHELL_COMMAND_TIMEOUT = DefaultShellTimeout
    /\ inbox = <<>>
    /\ received = <<>>
    /\ cur = NoCur
    /\ ran = {}
    /\ waited = {}
    /\ outcome = <<>>
    /\ published = <<>>
    /\ loopClosed = FALSE

\* The main thread runs start() itself only while no stop() call is on top
\* of it.
MainAt(pc) == mainPc = pc /\ frames = <<>>

\* ---------------------------------------------------------------- registry
\* One @operation(name) decorator applied to fn while load_all() imports the
\* provider modules.
operation(name, fn) ==
    /\ MainAt("loading")
    /\ operations' = RegistryPut(operations, name, fn)
    /\ regLog' = Append(regLog, <<name, fn>>)
    /\ UNCHANGED <<cfgVars, xportVars, mainVars, netPc, terminate, connVars,
                   msgVars, published, loopClosed>>

\* load_all() returns once every provider module is imported.
load_all(imported) ==
    /\ MainAt("loading")
    /\ imported
    /\ mainPc' = "connect"
    /\ UNCHANGED <<cfgVars, xportVars, regVars, frames, running, signals,
                   stopReturns, netPc, terminate, connVars, msgVars,
                   published, loopClosed>>

\* ------------------------------------------------------------------- start
\* client.ws_set_options(...); client.connect(host, port)
Connect ==
    /\ MainAt("connect")
    /\ conn' = "connecting"
    /\ mainPc' = "loop_start"
    /\ UNCHANGED <<cfgVars, xportVars, regVars, frames, running, signals,
                   stopReturns, netPc, terminate, subscribed, connacks,
                   msgVars, published, loopClosed>>

\* self.running = True; client.loop_start(); the main thread enters the try
\* block and sleeps in the while loop.
LoopStart ==
    /\ MainAt("loop_start")
    /\ running' = TRUE
    /\ netPc' = "idle"
    /\ mainPc' = "serving"
    /\ UNCHANGED <<cfgVars, xportVars, regVars, frames, signals, stopReturns,
                   terminate, connVars, msgVars, published, loopClosed>>

\* -------------------------------------------------------------------- stop
\* A stop() call in progress: who called it and where it is.
Frame(caller, pc) == [caller |-> caller, pc |-> pc]

StopAt(pc) == frames # <<>> /\ Head(frames).pc = pc

StopGoto(pc) == frames' = <<[Head(frames) EXCEPT !.pc = pc]>> \o Tail(frames)

\* SIGINT or SIGTERM: signal_handler runs on the main thread, on top of
\* whatever the main thread was doing, and calls agent.stop().
Signal ==
    /\ mainPc # "exited"
    /\ signals < MaxSignals
    /\ signals' = signals + 1
    /\ frames' = <<Frame("signal", "publish")>> \o frames
    /\ UNCHANGED <<cfgVars, xportVars, regVars, mainPc, running, stopReturns,
                   netPc, terminate, connVars, msgVars, published,
                   loopClosed>>

\* self.running = False; self._publish_status("offline")
StopPublish ==
    /\ StopAt("publish")
    /\ running' = FALSE
    /\ published' = Append(published, _publish_status("offline", operations))
    /\ StopGoto("sleep")
    /\ UNCHANGED <<cfgVars, xportVars, regVars, mainPc, signals, stopReturns,
                   netPc, terminate, connVars, msgVars, loopClosed>>

\* time.sleep(0.5) is over.
StopSleep ==
    /\ StopAt("sleep")
    /\ StopGoto("loop_stop")
    /\ UNCHANGED <<cfgVars, xportVars, regVars, mainPc, running, signals,
                   stopReturns, netPc, terminate, connVars, msgVars,
                   published, loopClosed>>

\* client.loop_stop(): without a network thread it returns at once, otherwise
\* it sets _thread_terminate and joins the thread.
StopLoopStop ==
    /\ StopAt("loop_stop")
    /\ terminate' = (IF netPc = "off" THEN terminate ELSE TRUE)
    /\ StopGoto("join")
    /\ UNCHANGED <<cfgVars, xportVars, regVars, mainPc, running, signals,
                   stopReturns, netPc, connVars, msgVars, published,
                   loopClosed>>

\* Variant: loop_stop() does not wait for the network thread.
StopJoinNoWait ==
    /\ StopAt("join")
    /\ StopGoto("disconnect")
    /\ UNCHANGED <<cfgVars, xportVars, regVars, mainPc, running, signals,
                   stopReturns, netPc, terminate, connVars, msgVars,
                   published, loopClosed>>

\* The join returns when the network thread has ended (or never started).
StopJoin ==
    /\ StopAt("join")
    /\ netPc \in {"off", "exited", "dead"}
    /\ StopGoto("disconnect")
    /\ UNCHANGED <<cfgVars, xportVars, regVars, mainPc, running, signals,
                   stopReturns, netPc, terminate, connVars, msgVars,
                   published, loopClosed>>

\* client.disconnect(); self.loop.close()
StopDisconnect ==
    /\ StopAt("disconnect")
    /\ conn' = "closed"
    /\ subscribed' = FALSE
    /\ loopClosed' = TRUE
    /\ StopGoto("ret")
    /\ UNCHANGED <<cfgVars, xportVars, regVars, mainPc, running, signals,
                   stopReturns, netPc, terminate, connacks, msgVars,
                   published>>

\* stop() returns.  Returning to signal_handler, sys.exit(0) raises
\* SystemExit: it unwinds every call the handler had interrupted; reaching
\* the try block of start() it runs the finally clause, which calls stop()
\* again; anywhere else it ends the process.  Returning to the finally
\* clause, the pending SystemExit ends the process.
StopReturn ==
    /\ StopAt("ret")
    /\ stopReturns' = stopReturns + 1
    /\ IF Head(frames).caller = "signal"
          /\ mainPc = "serving"
          /\ \A i \in 2..Len(frames) : frames[i].caller = "signal"
       THEN /\ mainPc' = "finally"
            /\ frames' = <<Frame("finally", "publish")>>
       ELSE /\ mainPc' = "exited"
            /\ frames' = <<>>
    /\ UNCHANGED <<cfgVars, xportVars, regVars, running, signals, netPc,
                   terminate, connVars, msgVars, published, loopClosed>>

\* ---------------------------------------------------------- network thread
\* The network thread runs callbacks while the process lives.
NetAt(pc) == netPc = pc /\ mainPc # "exited"

\* Variant: the request topic is subscribed on the first connect only.
_on_connectSubscribeOnce(reason_code) ==
    /\ NetAt("idle")
    /\ conn = "connecting"
    /\ connacks < MaxConnacks
    /\ connacks' = connacks + 1
    /\ connLog' = Append(connLog, reason_code)
    /\ IF reason_code = 0
       THEN /\ conn' = "up"
            /\ subscribed' = (subscribes = 0)
            /\ subscribes' = (IF subscribes = 0 THEN 1 ELSE subscribes)
            /\ published' = Append(published,
                                   _publish_status("online", operations))
       ELSE UNCHANGED <<conn, subscribed, subscribes, published>>
    /\ UNCHANGED <<cfgVars, flushed, regVars, mainVars, netPc, terminate,
                   msgVars, loopClosed>>

\* _on_connect(reason_code): on 0 subscribe and publish "online"; otherwise
\* log, and paho tries again.
_on_connect(reason_code) ==
    /\ NetAt("idle")
    /\ conn = "connecting"
    /\ connacks < MaxConnacks
    /\ connacks' = connacks + 1
    /\ connLog' = Append(connLog, reason_code)
    /\ IF reason_code = 0
       THEN /\ conn' = "up"
            /\ subscribed' = TRUE
            /\ subscribes' = subscribes + 1
            /\ published' = Append(published,
                                   _publish_status("online", operations))
       ELSE UNCHANGED <<conn, subscribed, subscribes, published>>
    /\ UNCHANGED <<cfgVars, flushed, regVars, mainVars, netPc, terminate,
                   msgVars, loopClosed>>

\* The connection drops: _on_disconnect logs, and paho's loop reconnects.
_on_disconnect ==
    /\ NetAt("idle")
    /\ conn = "up"
    /\ connacks < MaxConnacks
    /\ conn' = "connecting"
    /\ subscribed' = FALSE
    /\ UNCHANGED <<cfgVars, xportVars, regVars, mainVars, netPc, terminate,
                   connacks, msgVars, published, loopClosed>>

\* The broker delivers a message; it waits in arrival order until the
\* network thread is free to call _on_message.
Arrive(msg) ==
    /\ mainPc # "exited"
    /\ netPc \in {"idle", "executing"}
    /\ conn = "up"
    /\ subscribed
    /\ Len(received) < MaxMsgs
    /\ received' = Append(received, msg)
    /\ inbox' = Append(inbox, [n |-> Len(received) + 1, msg |-> msg])
    /\ outcome' = Append(outcome, "Received")
    /\ waited' = (IF netPc = "executing"
                  THEN waited \cup {Len(received) + 1}
                  ELSE waited)
    /\ UNCHANGED <<cfgVars, xportVars, regVars, mainVars, netPc, terminate,
                   connVars, cur, ran, subruns, published, loopClosed>>

\* _on_message from its first line up to the call of the handler.
\*   kind = "ignored"         other topic: return
\*          "json_error"      json.loads raised JSONDecodeError
\*          "missing_action"  "if not action" branch
\*          "raise"           another exception e was raised; dataBound tells
\*                            whether the local "data" was assigned by then
\*          "invoke"          execute() found handler fn and calls it
Prelude(kind, e, dataBound, fn) ==
    [kind |-> kind, e |-> e, dataBound |-> dataBound, fn |-> fn]

\* Variant: the topic of the message is not looked at.
OnMessagePreludeAnyTopic(msg, reg, closed) ==
    LET b == msg.body
        action == b.payload.action
    IN  IF b.bt = "badutf8"
            THEN Prelude("raise", <<"'utf-8' codec can't decode byte">>,
                         FALSE, NoFn)
        ELSE IF b.bt = "badjson"
            THEN Prelude("json_error", NoMessage, FALSE, NoFn)
        ELSE IF b.bt = "nonobj"
            THEN Prelude("raise", NoGetAttr("list"), TRUE, NoFn)
        ELSE IF b.payload.pt = "nondict"
            THEN Prelude("raise", NoGetAttr("NoneType"), TRUE, NoFn)
        ELSE IF ~Truthy(action)
            THEN Prelude("missing_action", NoMessage, TRUE, NoFn)
        ELSE IF ~Subscriptable(b.id)
            THEN Prelude("raise", NotSubscriptable(b.id), TRUE, NoFn)
        ELSE IF closed
            THEN Prelude("raise", LoopClosedError, TRUE, NoFn)
        ELSE IF RegistryGet(reg, action.s) = NoFn
            THEN Prelude("raise", UnknownOperation(action), TRUE, NoFn)
        ELSE Prelude("invoke", NoMessage, TRUE, RegistryGet(reg, action.s))

\* _on_message up to the handler call, as the code has it.
OnMessagePrelude(msg, reg, closed) ==
    LET b == msg.body
        action == b.payload.action
    IN  IF msg.topic # TOPICS.REQUEST
            THEN Prelude("ignored", NoMessage, FALSE, NoFn)
        ELSE IF b.bt = "badutf8"
            THEN Prelude("raise", <<"'utf-8' codec can't decode byte">>,
                         FALSE, NoFn)
        ELSE IF b.bt = "badjson"
            THEN Prelude("json_error", NoMessage, FALSE, NoFn)
        ELSE IF b.bt = "nonobj"
            THEN Prelude("raise", NoGetAttr("list"), TRUE, NoFn)
        ELSE IF b.payload.pt = "nondict"
            THEN Prelude("raise", NoGetAttr("NoneType"), TRUE, NoFn)
        ELSE IF ~Truthy(action)
            THEN Prelude("missing_action", NoMessage, TRUE, NoFn)
        ELSE IF ~Subscriptable(b.id)
            THEN Prelude("raise", NotSubscriptable(b.id), TRUE, NoFn)
        ELSE IF closed
            THEN Prelude("raise", LoopClosedError, TRUE, NoFn)
        ELSE IF RegistryGet(reg, action.s) = NoFn
            THEN Prelude("raise", UnknownOperation(action), TRUE, NoFn)
        ELSE Prelude("invoke", NoMessage, TRUE, RegistryGet(reg, action.s))

\* Variant: the except clause replies whether or not it has an id.
ExceptClauseUnguarded(msg, e, dataBound, n) ==
    IF dataBound /\ msg.body.bt = "nonobj"
    THEN [escaped |-> TRUE, pubs |-> <<>>]
    ELSE LET request_id == IF dataBound THEN msg.body.id ELSE JNull
         IN  [escaped |-> FALSE,
              pubs |-> <<_publish_error(request_id, e, n)>>]

\* The "except Exception as e" clause: it reads data.get("id") again when
\* data is bound, which raises once more when data is not a dict; that
\* exception leaves the callback.
ExceptClause(msg, e, dataBound, n) ==
    IF dataBound /\ msg.body.bt = "nonobj"
    THEN [escaped |-> TRUE, pubs |-> <<>>]
    ELSE LET request_id == IF dataBound THEN msg.body.id ELSE JNull
         IN  [escaped |-> FALSE,
              pubs |-> IF Truthy(request_id)
                       THEN <<_publish_error(request_id, e, n)>>
                       ELSE <<>>]

SetOutcome(n, o) == outcome' = [outcome EXCEPT ![n] = o]

\* Variant: the newest message is dispatched first.
NextInboxNewest == inbox[Len(inbox)]

\* The next message to dispatch: the one that arrived first.
NextInbox == Head(inbox)

\* _on_message is called with the next message and runs until it returns,
\* raises, or has called the handler.
OnMessageBegin ==
    /\ NetAt("idle")
    /\ inbox # <<>>
    /\ LET item == NextInbox
           n == item.n
           msg == item.msg
           p == OnMessagePrelude(msg, operations, loopClosed)
           x == ExceptClause(msg, p.e, p.dataBound, n)
       IN  /\ inbox' = SelectSeq(inbox, LAMBDA it : it.n # n)
           /\ CASE p.kind = "ignored" ->
                    /\ SetOutcome(n, "Ignored")
                    /\ UNCHANGED <<netPc, cur, ran, published>>
                [] p.kind = "json_error" ->
                    /\ SetOutcome(n, "DecodeFailed")
                    /\ UNCHANGED <<netPc, cur, ran, published>>
                [] p.kind = "missing_action" ->
                    /\ published' = Append(published,
                          _publish_error(msg.body.id, MissingAction, n))
                    /\ SetOutcome(n, "ExecutionFailed")
                    /\ UNCHANGED <<netPc, cur, ran>>
                [] p.kind = "raise" ->
                    /\ published' = published \o x.pubs
                    /\ netPc' = (IF x.escaped THEN "dead" ELSE netPc)
                    /\ SetOutcome(n, IF x.escaped THEN "Escaped"
                                     ELSE IF p.dataBound THEN "ExecutionFailed"
                                     ELSE "DecodeFailed")
                    /\ UNCHANGED <<cur, ran>>
                [] p.kind = "invoke" ->
                    /\ cur' = [n |-> n, msg |-> msg, fn |-> p.fn]
                    /\ ran' = ran \cup {n}
                    /\ netPc' = "executing"
                    /\ SetOutcome(n, "Executing")
                    /\ UNCHANGED published
    /\ UNCHANGED <<cfgVars, xportVars, regVars, mainVars, terminate, connVars,
                   received, waited, subruns, loopClosed>>

\* asyncio.iscoroutinefunction(fn)
IsCoroutineFunction(fn) == fn = "stub_async_fn"

\* What calling a coroutine function without awaiting it gives.
CoroutineObject == "<coroutine object>"

\* Variant: the coroutine a coroutine function returns is not awaited.
ExecuteNotAwaited(fn, params) ==
    IF IsCoroutineFunction(fn)
    THEN {Returns(CoroutineObject)}
    ELSE HandlerOutcomes(fn, params)

\* execute() once it has found fn: "return await fn(params)" for a coroutine
\* function, "return fn(params)" otherwise.  run_until_complete returns what
\* the handler returned, or raises what it raised, when the handler is done.
Execute(fn, params) ==
    IF IsCoroutineFunction(fn)
    THEN HandlerOutcomes(fn, params)
    ELSE HandlerOutcomes(fn, params)

\* json.dumps(packet) encodes str, numbers, lists and dicts; anything else
\* raises TypeError.
Serializable(data) == data \notin {RawBytes, CoroutineObject}

NotSerializable(data) ==
    <<"Object of type ", IF data = RawBytes THEN "bytes" ELSE "coroutine",
      " is not JSON serializable">>

\* Variant: the Response is published before the encoding error shows.
ReplyPublishFirst(msg, r, n) ==
    IF r.ok
    THEN IF Serializable(r.data)
         THEN <<_publish_response(msg.body.id, r.data, n)>>
         ELSE <<_publish_response(msg.body.id, r.data, n)>>
              \o ExceptClause(msg, NotSerializable(r.data), TRUE, n).pubs
    ELSE ExceptClause(msg, r.e, TRUE, n).pubs

\* What _on_message publishes once the handler has returned or raised:
\* json.dumps runs before client.publish, so a result that cannot be encoded
\* goes to the except clause with nothing published.
Reply(msg, r, n) ==
    IF r.ok
    THEN IF Serializable(r.data)
         THEN <<_publish_response(msg.body.id, r.data, n)>>
         ELSE ExceptClause(msg, NotSerializable(r.data), TRUE, n).pubs
    ELSE ExceptClause(msg, r.e, TRUE, n).pubs

\* The handler returns or raises; _on_message publishes and returns.
OnMessageFinish ==
    /\ NetAt("executing")
    /\ \E r \in Execute(cur.fn, cur.msg.body.payload.params) :
          /\ published' = published \o Reply(cur.msg, r, cur.n)
          /\ SetOutcome(cur.n, IF r.ok /\ Serializable(r.data)
                               THEN "Done" ELSE "ExecutionFailed")
          /\ subruns' = (IF r.sub.ran
                         THEN subruns \cup {[n |-> cur.n,
                                             timeout |-> r.sub.timeout,
                                             duration |-> r.sub.duration]}
                         ELSE subruns)
    /\ netPc' = "idle"
    /\ cur' = NoCur
    /\ UNCHANGED <<cfgVars, xportVars, regVars, mainVars, terminate, connVars,
                   inbox, received, ran, waited, loopClosed>>

\* The network thread writes the next queued publish to the broker.
NetFlush ==
    /\ NetAt("idle")
    /\ conn = "up"
    /\ flushed < Len(published)
    /\ flushed' = flushed + 1
    /\ UNCHANGED <<cfgVars, connLog, subscribes, regVars, mainVars, netPc,
                   terminate, connVars, msgVars, published, loopClosed>>

\* paho's loop notices _thread_terminate and the thread ends.
NetExit ==
    /\ NetAt("idle")
    /\ terminate
    /\ netPc' = "exited"
    /\ UNCHANGED <<cfgVars, xportVars, regVars, mainVars, terminate, connVars,
                   msgVars, published, loopClosed>>

\* ---------------------------------------------------------- specifications
ReasonCodes == {0, 5}

StopStep ==
    \/ StopPublish
    \/ StopSleep
    \/ StopLoopStop
    \/ StopJoin
    \/ StopDisconnect
    \/ StopReturn

\* The agent as main() runs it: load_all() imports the provider modules of
\* the repository, then the agent serves until a signal stops it.
Next ==
    \/ \E i \in 1..Len(LoadSequence) :
          /\ Len(regLog) = i - 1
          /\ operation(LoadSequence[i][1], LoadSequence[i][2])
    \/ load_all(Len(regLog) = Len(LoadSequence))
    \/ Connect
    \/ LoopStart
    \/ Signal
    \/ StopStep
    \/ \E rc \in ReasonCodes : _on_connect(rc)
    \/ _on_disconnect
    \/ \E msg \in LifeMsgs : Arrive(msg)
    \/ OnMessageBegin
    \/ OnMessageFinish
    \/ NetFlush
    \/ NetExit

Spec == Init /\ [][Next]_vars

\* The session alone: start, connect callbacks, drops and stop, with no
\* inbound message.
NextSession ==
    \/ \E i \in 1..Len(LoadSequence) :
          /\ Len(regLog) = i - 1
          /\ operation(LoadSequence[i][1], LoadSequence[i][2])
    \/ load_all(Len(regLog) = Len(LoadSequence))
    \/ Connect
    \/ LoopStart
    \/ Signal
    \/ StopStep
    \/ \E rc \in ReasonCodes : _on_connect(rc)
    \/ _on_disconnect
    \/ NetExit

SpecSession == Init /\ [][NextSession]_vars

\* The dispatcher alone: the agent is up, connected and subscribed, and any
\* message may arrive.
InitDispatch ==
    /\ operations = ApplyRegs(EmptyRegistry, LoadSequence)
    /\ regLog = LoadSequence
    /\ mainPc = "serving"
    /\ frames = <<>>
    /\ running = TRUE
    /\ signals = 0
    /\ stopReturns = 0
    /\ netPc = "idle"
    /\ terminate = FALSE
    /\ conn = "up"
    /\ subscribed = TRUE
    /\ connacks = 1
    /\ connLog = <<0>>
    /\ subscribes = 1
    /\ flushed = 1
    /\ subruns = {}
    /\ SHELL_COMMAND_TIMEOUT = DefaultShellTimeout
    /\ inbox = <<>>
    /\ received = <<>>
    /\ cur = NoCur
    /\ ran = {}
    /\ waited = {}
    /\ outcome = <<>>
    /\ published = <<_publish_status("online", operations)>>
    /\ loopClosed = FALSE

NextDispatch ==
    \/ \E msg \in Msgs : Arrive(msg)
    \/ OnMessageBegin
    \/ OnMessageFinish

SpecDispatch == InitDispatch /\ [][NextDispatch]_vars

\* The registry under any provider modules: load_all() may apply any
\* decorators, in any order, before the agent connects; one signal then stops
\* the serving agent.
ProviderFns == {"system_info_fn", "stub_fn"}

NextRegistry ==
    \/ \E name \in Names, fn \in ProviderFns :
          /\ Len(regLog) < MaxRegs
          /\ operation(name, fn)
    \/ load_all(TRUE)
    \/ Connect
    \/ LoopStart
    \/ (MainAt("serving") /\ Signal)
    \/ StopStep
    \/ \E rc \in ReasonCodes : _on_connect(rc)
    \/ NetExit

SpecRegistry == Init /\ [][NextRegistry]_vars

\* The handlers behind the dispatcher: the agent is up with the stub
\* provider loaded as well, under either configured shell timeout.
ShellTimeouts == {DefaultShellTimeout, 300}

InitHandlers ==
    /\ operations = ApplyRegs(EmptyRegistry, LoadSequence \o StubSequence)
    /\ regLog = LoadSequence \o StubSequence
    /\ SHELL_COMMAND_TIMEOUT \in ShellTimeouts
    /\ mainPc = "serving"
    /\ frames = <<>>
    /\ running = TRUE
    /\ signals = 0
    /\ stopReturns = 0
    /\ netPc = "idle"
    /\ terminate = FALSE
    /\ conn = "up"
    /\ subscribed = TRUE
    /\ connacks = 1
    /\ connLog = <<0>>
    /\ subscribes = 1
    /\ flushed = 1
    /\ inbox = <<>>
    /\ received = <<>>
    /\ cur = NoCur
    /\ ran = {}
    /\ waited = {}
    /\ outcome = <<>>
    /\ subruns = {}
    /\ published = <<_publish_status("online", operations)>>
    /\ loopClosed = FALSE

NextHandlers ==
    \/ \E msg \in HandlerMsgs : Arrive(msg)
    \/ OnMessageBegin
    \/ OnMessageFinish

SpecHandlers == InitHandlers /\ [][NextHandlers]_vars

\* Shutdown of a serving agent: requests keep arriving while signals stop the
\* agent.
NextShutdown ==
    \/ \E msg \in LifeMsgs : Arrive(msg)
    \/ OnMessageBegin
    \/ OnMessageFinish
    \/ Signal
    \/ StopStep
    \/ NetExit

SpecShutdown == InitDispatch /\ [][NextShutdown]_vars

\* ------------------------------------------------------------------ claims
Arrivals == 1..Len(received)

\* The callback of arrival n has ended.
Finished(n) == outcome[n] \notin {"Received", "Executing"}

\* The client.publish calls on the response topic made for arrival n.
Replies(n) ==
    {i \in 1..Len(published) :
        published[i].topic = TOPICS.RESPONSE /\ published[i].cause = n}

Contains(message, word) == \E k \in 1..Len(message) : message[k] = word

\* C1: every Response or Error envelope published for a request carries in
\* payload.requestId exactly the id of the request that triggered it.
C1_RequestIdEchoed ==
    \A i \in 1..Len(published) :
        published[i].topic = TOPICS.RESPONSE =>
            /\ published[i].cause \in Arrivals
            /\ published[i].packet.requestId
                   = received[published[i].cause].body.id

\* C1 witness: a Response for "r1" and an Error for the non-string id 7 have
\* both been published.
C1_Witness ==
    /\ \E i \in 1..Len(published) :
          /\ published[i].packet.type = "response"
          /\ published[i].packet.requestId = JStr("r1")
    /\ \E j \in 1..Len(published) :
          /\ published[j].packet.type = "error"
          /\ published[j].packet.requestId = JInt(7)

UnknownAction(msg) ==
    /\ msg.topic = TOPICS.REQUEST
    /\ msg.body.bt = "obj"
    /\ msg.body.payload.pt = "dict"
    /\ Truthy(msg.body.payload.action)
    /\ msg.body.payload.action.s \notin DOMAIN operations

\* C2: every decodable request whose action is not registered gets an Error
\* envelope whose message contains the action name, and no Response.
C2_UnknownActionError ==
    \A n \in Arrivals :
        (UnknownAction(received[n]) /\ Finished(n)) =>
            /\ \E i \in Replies(n) :
                  /\ published[i].packet.type = "error"
                  /\ Contains(published[i].packet.message,
                              received[n].body.payload.action.s)
            /\ \A i \in Replies(n) : published[i].packet.type # "response"

Unparseable(msg) ==
    /\ msg.topic = TOPICS.REQUEST
    /\ msg.body.bt \in {"badutf8", "badjson"}

\* C3: a payload on the request topic that cannot be parsed leads to no
\* envelope at all and to no handler call.
C3_MalformedSilent ==
    \A n \in Arrivals :
        Unparseable(received[n]) => (Replies(n) = {} /\ n \notin ran)

\* C3 witness: the callbacks of a payload that is not UTF-8 and of one that
\* is not JSON have both ended.
C3_Witness ==
    /\ \E n \in Arrivals : received[n].body.bt = "badutf8" /\ Finished(n)
    /\ \E n \in Arrivals : received[n].body.bt = "badjson" /\ Finished(n)

\* C4: Response/Error envelopes are published in the order in which their
\* requests arrived.
C4_RepliesInArrivalOrder ==
    \A i, j \in 1..Len(published) :
        (/\ i < j
         /\ published[i].topic = TOPICS.RESPONSE
         /\ published[j].topic = TOPICS.RESPONSE)
        => published[i].cause < published[j].cause

\* C4 witness: the second request arrived while the handler of the first
\* was still executing, and both have been answered.
C4_Witness ==
    /\ 1 \in ran
    /\ 2 \in waited
    /\ Replies(1) # {}
    /\ Replies(2) # {}

\* C5: stop() on an agent that is already stopped is a no-op: once a stop()
\* call has returned, a later call publishes nothing and changes no state of
\* the agent.
C5_StopIdempotent ==
    [][stopReturns > 0 =>
          /\ published' = published
          /\ running' = running
          /\ conn' = conn
          /\ loopClosed' = loopClosed]_vars

\* The status of the last Status envelope published, "" when there is none.
RECURSIVE LastStatusOf(_)
LastStatusOf(pubs) ==
    IF pubs = <<>> THEN ""
    ELSE IF pubs[Len(pubs)].topic = TOPICS.STATUS
         THEN pubs[Len(pubs)].packet.status
         ELSE LastStatusOf(SubSeq(pubs, 1, Len(pubs) - 1))

\* C6: once stop() has returned, the last Status envelope published is
\* "offline".
C6_LastStatusOffline == stopReturns > 0 => LastStatusOf(published) = "offline"

\* C7: every Status envelope lists exactly the registered names, sorted, each
\* once.
C7_StatusListsRegistry ==
    \A i \in 1..Len(published) :
        published[i].topic = TOPICS.STATUS =>
            LET ops == published[i].packet.operations
            IN  /\ \A a, b \in 1..Len(ops) :
                      a < b => Rank(ops[a]) < Rank(ops[b])
                /\ {ops[k] : k \in 1..Len(ops)} = DOMAIN operations

\* C7 witness: "system_info" was registered first, "get_clipboard" after it,
\* one of them twice, and both an online and an offline Status envelope list
\* the two names.
C7_Witness ==
    /\ Len(regLog) = 3
    /\ regLog[1][1] = "system_info"
    /\ DOMAIN operations = {"get_clipboard", "system_info"}
    /\ \E i, j \in 1..Len(published) :
          /\ published[i].packet.status = "online"
          /\ published[j].packet.status = "offline"
          /\ Len(published[i].packet.operations) = 2
          /\ Len(published[j].packet.operations) = 2

\* The last registration made under name.
LastRegistered(name) ==
    LET last == CHOOSE i \in 1..Len(regLog) :
                    /\ regLog[i][1] = name
                    /\ \A j \in 1..Len(regLog) : regLog[j][1] = name => j <= i
    IN  regLog[last][2]

\* C8: after any sequence of registrations the registry has one entry for
\* each name registered and none else, and the entry of a name is the handler
\* registered last under that name.
C8_LastRegistrationWins ==
    /\ DOMAIN operations = {regLog[i][1] : i \in 1..Len(regLog)}
    /\ \A name \in DOMAIN operations : operations[name] = LastRegistered(name)

\* C8 witness: a name was registered, then another name, then the first name
\* again with another handler.
C8_Witness ==
    /\ Len(regLog) = 3
    /\ regLog[1][1] = regLog[3][1]
    /\ regLog[1][2] # regLog[3][2]
    /\ regLog[2][1] # regLog[1][1]

LacksAction(msg) ==
    /\ msg.topic = TOPICS.REQUEST
    /\ msg.body.bt = "obj"
    /\ ~Truthy(msg.body.payload.action)

\* C9: a decodable request without an action runs no handler and gets an
\* Error envelope with the "missing action" message and the request's id.
C9_MissingActionError ==
    \A n \in Arrivals :
        (LacksAction(received[n]) /\ Finished(n)) =>
            /\ n \notin ran
            /\ \E i \in Replies(n) :
                  /\ published[i].packet.type = "error"
                  /\ published[i].packet.message = MissingAction
                  /\ published[i].packet.requestId = received[n].body.id

\* The handler of arrival n was invoked and raised.
HandlerFailed(n) == n \in ran /\ outcome[n] = "ExecutionFailed"

\* The exception texts the handler of a request can raise.
FailureTexts(msg) ==
    {r.e : r \in {o \in HandlerOutcomes(
                      RegistryGet(operations, msg.body.payload.action.s),
                      msg.body.payload.params) : ~o.ok}}

\* C10: when a handler fails, an Error envelope with the handler's failure
\* text is published, no Response is, and the network thread stays alive for
\* the next request.
C10_HandlerFailureReported ==
    \A n \in Arrivals :
        HandlerFailed(n) =>
            /\ \E i \in Replies(n) :
                  /\ published[i].packet.type = "error"
                  /\ published[i].packet.message \in FailureTexts(received[n])
            /\ \A i \in Replies(n) : published[i].packet.type # "response"
            /\ (\A k \in Arrivals : outcome[k] # "Escaped") => netPc # "dead"

\* C11: during stop() the network loop is not stopped and the connection is
\* not closed before the offline status has been written to the broker.
C11_OfflineFlushedBeforeTeardown ==
    (netPc = "exited" \/ (netPc # "off" /\ conn = "closed")) =>
        \A i \in 1..Len(published) :
            published[i].packet.status = "offline" => i <= flushed

\* C12: no message on the request topic makes an exception leave
\* _on_message: every callback ends in Done, DecodeFailed or ExecutionFailed
\* and the network thread lives on.
C12_NoExceptionEscapes ==
    /\ netPc # "dead"
    /\ \A n \in Arrivals :
          (received[n].topic = TOPICS.REQUEST /\ Finished(n)) =>
              outcome[n] \in {"Done", "DecodeFailed", "ExecutionFailed"}

\* C13: every connect callback with reason code 0 subscribes to the request
\* topic and publishes a retained "online" Status envelope; one with another
\* reason code does neither.
C13_ConnectSubscribesAndAnnounces ==
    [][Len(connLog') = Len(connLog) + 1 =>
          IF connLog'[Len(connLog')] = 0
          THEN /\ subscribes' = subscribes + 1
               /\ subscribed'
               /\ Len(published') = Len(published) + 1
               /\ SubSeq(published', 1, Len(published)) = published
               /\ published'[Len(published')].topic = TOPICS.STATUS
               /\ published'[Len(published')].packet.status = "online"
               /\ published'[Len(published')].retain
          ELSE /\ subscribes' = subscribes
               /\ subscribed' = subscribed
               /\ published' = published]_vars

\* C13 witness: the first connect and a reconnect after a drop have both
\* succeeded; each subscribed and announced "online".
C13_Witness ==
    /\ connLog = <<0, 0>>
    /\ subscribes = 2
    /\ subscribed
    /\ Cardinality({i \in 1..Len(published) :
                       published[i].packet.status = "online"}) = 2

\* C14: a message on another topic than the request topic is ignored: its
\* callback runs no handler, publishes nothing and changes no state of the
\* agent.
C14_OtherTopicIgnored ==
    [][\A n \in Arrivals :
          (/\ received[n].topic # TOPICS.REQUEST
           /\ outcome[n] = "Received"
           /\ outcome'[n] # "Received")
          => /\ outcome'[n] = "Ignored"
             /\ UNCHANGED <<published, ran, cur, netPc, subruns, operations,
                            running, conn, subscribed, loopClosed>>]_vars

\* C14 witness: the callback of a message on another topic has ended, with a
\* well-formed request for a registered operation in it.
C14_Witness ==
    \E n \in Arrivals :
        /\ received[n].topic = OtherTopic
        /\ received[n].body.payload.action = JStr("system_info")
        /\ Finished(n)

\* The results the handler of a request returns when it succeeds.
Results(msg) ==
    {r.data : r \in {o \in HandlerOutcomes(
                        RegistryGet(operations, msg.body.payload.action.s),
                        msg.body.payload.params) : o.ok}}

\* The handler of a request cannot fail and its result can be encoded.
AlwaysSucceeds(msg) ==
    \A o \in HandlerOutcomes(RegistryGet(operations, msg.body.payload.action.s),
                             msg.body.payload.params) :
        o.ok /\ Serializable(o.data)

\* C15: for a synchronous handler and for a coroutine handler alike, nothing
\* is published for a request while its handler executes, and the Response
\* carries exactly the result the handler returned.
C15_UniformInvocation ==
    /\ netPc = "executing" => Replies(cur.n) = {}
    /\ \A n \in ran :
          Finished(n) =>
              /\ \A i \in Replies(n) :
                    published[i].packet.type = "response" =>
                        published[i].packet.data \in Results(received[n])
              /\ AlwaysSucceeds(received[n]) =>
                    /\ outcome[n] = "Done"
                    /\ \E i \in Replies(n) :
                          published[i].packet.type = "response"

\* C15 witness: a request to the synchronous system_info and one to the
\* coroutine stub_async have both been answered with a Response.
C15_Witness ==
    /\ \E n \in Arrivals :
          /\ received[n].body.payload.action = JStr("system_info")
          /\ outcome[n] = "Done"
          /\ \E i \in Replies(n) : published[i].packet.data = "{hostname: h1}"
    /\ \E n \in Arrivals :
          /\ received[n].body.payload.action = JStr("stub_async")
          /\ outcome[n] = "Done"
          /\ \E i \in Replies(n) : published[i].packet.data = "{async: 1}"

C17_AtMostOneReply ==
    \A n \in Arrivals : Cardinality(Replies(n)) <= 1

\* C17 witness: the handler returned a result json.dumps cannot encode, and
\* the one envelope published for the request is the Error envelope.
C17_Witness ==
    \E n \in Arrivals :
        /\ received[n].body.payload.action = JStr("stub_raw")
        /\ Finished(n)
        /\ \E i \in Replies(n) :
              /\ published[i].packet.type = "error"
              /\ published[i].packet.message = NotSerializable(RawBytes)

\* The network thread runs no callback any more.
NetTerminated == netPc \in {"off", "exited", "dead"}

\* The positions of the envelopes published on the response topic.
ReplyPositions(pubs) ==
    {i \in 1..Len(pubs) : pubs[i].topic = TOPICS.RESPONSE}

\* C18: however stop() interleaves with inbound requests, the event loop is
\* closed only once the network thread has terminated; from then on no
\* request is in its handler and none changes its outcome, no run on a closed
\* loop is ever reported, and nothing is published on the response topic
\* after stop() has returned.
C18_LoopClosedAfterNetworkThread ==
    [][/\ loopClosed' =>
             /\ NetTerminated'
             /\ \A n \in 1..Len(outcome') : outcome'[n] # "Executing"
       /\ loopClosed =>
             /\ outcome' = outcome
             /\ ran' = ran
       /\ \A i \in 1..Len(published') :
             published'[i].packet.message # LoopClosedError
       /\ stopReturns > 0 =>
             ReplyPositions(published') = ReplyPositions(published)]_vars

\* C18 witness: stop() has returned with the loop closed; one request was
\* dispatched and answered before that, another arrived and was never
\* dispatched.
C18_Witness ==
    /\ loopClosed
    /\ stopReturns > 0
    /\ \E n \in Arrivals :
          /\ n \in ran
          /\ outcome[n] = "Done"
          /\ Replies(n) # {}
    /\ \E n \in Arrivals :
          /\ outcome[n] = "Received"
          /\ \E i \in 1..Len(inbox) : inbox[i].n = n

\* A decodable request on the request topic that names an action and has
\* no id: data.get("id") is None whether the key is absent or null.
NamesActionWithoutId(msg) ==
    /\ msg.topic = TOPICS.REQUEST
    /\ msg.body.bt = "obj"
    /\ msg.body.payload.pt = "dict"
    /\ Truthy(msg.body.payload.action)
    /\ msg.body.id = JNull

\* C19: for a decodable request that names an action but has no id, the
\* handler is never invoked and no envelope is published.
C19_NoIdNoInvocationNoReply ==
    \A n \in Arrivals :
        NamesActionWithoutId(received[n]) =>
            /\ outcome[n] # "Executing"
            /\ n \notin ran
            /\ \A i \in 1..Len(published) : published[i].cause # n
            /\ Finished(n) => outcome[n] = "ExecutionFailed"

\* C19 witness: a request without id for the registered system_info has
\* been handled.
C19_Witness ==
    \E n \in Arrivals :
        /\ NamesActionWithoutId(received[n])
        /\ received[n].body.payload.action = JStr("system_info")
        /\ Finished(n)

====
